---- MODULE Spec2Model ----
(***************************************************************************)
(* Model of the AfterShip tracking client (src/trackings.go): the tracking *)
(* identifiers and their URL paths, the seven tracking operations of the   *)
(* Client and the requests they hand to the request helper, and the        *)
(* RateLimit check.                                                        *)
(*                                                                         *)
(* A Go string is a sequence of one-character strings, so that escaping    *)
(* and concatenation are computed and not assumed.                         *)
(***************************************************************************)
EXTENDS Integers, Sequences, FiniteSets, TLC

VARIABLES
    ident,      \* SpecURI: the identifier whose URIPath is evaluated
    uri,        \* SpecURI: the (path, error) pair URIPath returned
    rateLimit,  \* the RateLimit value (Reset, Limit, Remaining)
    now,        \* time.Now().Unix()
    reached,    \* the last isReached call: when it ran and what it returned
    call,       \* the last tracking operation called, its request and result
    calls,      \* number of tracking operations called
    validated,  \* number of calls whose arguments passed validation
    sent,       \* number of requests handed to makeRequest
    retracked,  \* identifier -> number of retrack requests handed over for it
    fresh       \* what each call does on a client with no earlier call

vars ==
    <<ident, uri, rateLimit, now, reached, call, calls, validated, sent,
      retracked, fresh>>

----------------------------------------------------------------------------
(* Bounds *)

\* longest string drawn for an identifier in SpecURI
MaxLen == 2
\* longest run of tracking operations in Spec
MaxCalls == 4
\* last second the clock reaches in SpecRate
MaxTime == 4

----------------------------------------------------------------------------
(* Strings *)

\* the characters identifiers are drawn from: one that needs no escaping,
\* the path separator, the escape character itself and the query separator
Chars == {"a", "/", "%", "?"}

RECURSIVE StringsOfLen(_)
StringsOfLen(n) ==
    IF n = 0 THEN {<<>>}
    ELSE {<<c>> \o s : c \in Chars, s \in StringsOfLen(n - 1)}

Strings == UNION {StringsOfLen(n) : n \in 0..MaxLen}

\* the strings the tracking operations of Spec are called with
OpStrings == {<<>>, <<"a", "/">>}

EmptyString == <<>>

RECURSIVE Count(_, _)
Count(s, c) ==
    IF s = <<>> THEN 0
    ELSE (IF Head(s) = c THEN 1 ELSE 0) + Count(Tail(s), c)

\* url.PathEscape on one character (net/url shouldEscape, encodePathSegment):
\* letters pass, '/', '?' and '%' are percent-encoded
EscapeChar(c) ==
    CASE c = "/" -> <<"%", "2", "F">>
      [] c = "?" -> <<"%", "3", "F">>
      [] c = "%" -> <<"%", "2", "5">>
      [] OTHER   -> <<c>>

RECURSIVE PathEscape(_)
PathEscape(s) ==
    IF s = <<>> THEN <<>>
    ELSE EscapeChar(Head(s)) \o PathEscape(Tail(s))

----------------------------------------------------------------------------
(* Errors: an error is the chain of its messages, outermost first; nil is  *)
(* the empty chain.                                                        *)

Nil == <<>>

errMissingTrackingID == "errMissingTrackingID"
errMissingSlugOrTrackingNumber == "errMissingSlugOrTrackingNumber"
errMissingTrackingNumber == "errMissingTrackingNumber"

\* errors.New
New(msg) == <<msg>>

\* errors.Wrap: nil stays nil
Wrap(err, msg) == IF err = Nil THEN Nil ELSE <<msg>> \o err

----------------------------------------------------------------------------
(* Tracking identifiers *)

TrackingID(id) == [kind |-> "TrackingID", id |-> id]

SlugTrackingNumber(slug, tn) ==
    [kind |-> "SlugTrackingNumber", Slug |-> slug, TrackingNumber |-> tn]

IdentifiersOver(S) ==
    {TrackingID(id) : id \in S}
        \cup {SlugTrackingNumber(slug, tn) : slug \in S, tn \in S}

TrackingIDURIPathUnescaped(id) ==
    IF id = EmptyString
    THEN [path |-> EmptyString, err |-> New(errMissingTrackingID)]
    ELSE [path |-> <<"/">> \o id, err |-> Nil]

\* func (id TrackingID) URIPath() (string, error)
TrackingIDURIPath(id) ==
    IF id = EmptyString
    THEN [path |-> EmptyString, err |-> New(errMissingTrackingID)]
    ELSE [path |-> <<"/">> \o PathEscape(id), err |-> Nil]

SlugTrackingNumberURIPathBothEmpty(stn) ==
    IF stn.Slug = EmptyString /\ stn.TrackingNumber = EmptyString
    THEN [path |-> EmptyString, err |-> New(errMissingSlugOrTrackingNumber)]
    ELSE [path |-> <<"/">> \o PathEscape(stn.Slug)
                      \o <<"/">> \o PathEscape(stn.TrackingNumber),
          err |-> Nil]

\* func (stn SlugTrackingNumber) URIPath() (string, error)
SlugTrackingNumberURIPath(stn) ==
    IF stn.Slug = EmptyString \/ stn.TrackingNumber = EmptyString
    THEN [path |-> EmptyString, err |-> New(errMissingSlugOrTrackingNumber)]
    ELSE [path |-> <<"/">> \o PathEscape(stn.Slug)
                      \o <<"/">> \o PathEscape(stn.TrackingNumber),
          err |-> Nil]

\* identifier.URIPath(): dispatch on the dynamic type of the interface value
URIPath(identifier) ==
    IF identifier.kind = "TrackingID"
    THEN TrackingIDURIPath(identifier.id)
    ELSE SlugTrackingNumberURIPath(identifier)

----------------------------------------------------------------------------
(* RateLimit *)

isReachedIgnoringReset(rl, t) == rl.Remaining = 0

isReachedStrict(rl, t) == rl.Remaining = 0 /\ rl.Reset > t

\* func (rateLimit *RateLimit) isReached() bool
isReached(rl, t) == rl.Remaining = 0 /\ rl.Reset >= t

----------------------------------------------------------------------------
(* Values of the tracking operations *)

\* "/trackings"
TrackingsPath == <<"/", "t", "r", "a", "c", "k", "i", "n", "g", "s">>

\* "/retrack"
RetrackSuffix == <<"/", "r", "e", "t", "r", "a", "c", "k">>

\* "/mark-as-completed"
MarkAsCompletedSuffix ==
    <<"/", "m", "a", "r", "k", "-", "a", "s", "-",
      "c", "o", "m", "p", "l", "e", "t", "e", "d">>

\* net/http method names
MethodGet == "GET"
MethodPost == "POST"
MethodPut == "PUT"
MethodDelete == "DELETE"

\* type Tracking struct, by its ID field; Tracking{} is the zero value
Tracking(id) == [ID |-> id]
ZeroTracking == Tracking(EmptyString)

\* type trackingWrapper struct { Tracking Tracking `json:"tracking"` }
trackingWrapper(t) == [Tracking |-> t]

\* type PagedTrackings struct, by its Count and Trackings fields
PagedTrackings(n, ts) == [Count |-> n, Trackings |-> ts]
ZeroPagedTrackings == PagedTrackings(0, <<>>)

TrackingCompletedStatusDelivered == "DELIVERED"
TrackingCompletedStatusLost == "LOST"
TrackingCompletedStatusReturnedToSender == "RETURNED_TO_SENDER"

\* type TrackingCompletedStatus string: the three constants, and two of the
\* other strings a caller can convert to the type
TrackingCompletedStatuses ==
    {TrackingCompletedStatusDelivered, TrackingCompletedStatusLost,
     TrackingCompletedStatusReturnedToSender, "", "EXPIRED"}

\* type CreateTrackingParams struct, by TrackingNumber and Slug
CreateTrackingParamsSet == [TrackingNumber : OpStrings, Slug : {<<>>, <<"a">>}]

\* type GetTrackingParams struct, by Fields
GetTrackingParamsSet == [Fields : {<<>>, <<"a">>}]

\* type UpdateTrackingParams struct, by Title
UpdateTrackingParamsSet == [Title : {<<>>, <<"a">>}]

\* type GetTrackingsParams struct, by CreatedAtMax
GetTrackingsParamsSet == [CreatedAtMax : {<<>>, <<"a">>}]

\* the identifiers the tracking operations of Spec are called with
Identifiers == IdentifiersOver(OpStrings)

\* a nil interface{} argument, and a non-nil one
NilArg == <<>>
Arg(v) == <<v>>

\* createTrackingRequest{Tracking: params} and updateTrackingRequest{params}
createTrackingRequest(params) == [tracking |-> params]
updateTrackingRequest(params) == [tracking |-> params]

\* markAsCompletedRequest{Reason: reason}
markAsCompletedRequest(reason) == [reason |-> reason]

----------------------------------------------------------------------------
(* The request helper.  client.makeRequest is not part of trackings.go: it *)
(* receives (method, path, query, body, result), and comes back with an    *)
(* error (nil or not) after decoding the response data into result, or     *)
(* after decoding nothing.                                                 *)

\* the errors makeRequest returns
HelperErrors == {Nil, <<"api error">>}

\* what makeRequest does to a *trackingWrapper result: <<>> decodes nothing
WrapperResponses ==
    [err : HelperErrors, decoded : {<<>>, <<trackingWrapper(Tracking(<<"a">>))>>}]

\* what makeRequest does to a *PagedTrackings result
PagedResponses ==
    [err : HelperErrors,
     decoded : {<<>>, <<PagedTrackings(1, <<Tracking(<<"a">>)>>)>>}]

\* client.makeRequest(ctx, method, path, query, body, &result) with result
\* holding `zero` before the call: the request handed over, the value of
\* result after the call and the error returned
makeRequest(method, path, query, body, zero, resp) ==
    [req    |-> [method |-> method, path |-> path, query |-> query, body |-> body],
     resp   |-> resp,
     result |-> IF resp.decoded = <<>> THEN zero ELSE resp.decoded[1],
     err    |-> resp.err]

\* an operation that returned before reaching makeRequest
Rejected(value, err) ==
    [ok |-> FALSE, req |-> <<>>, resp |-> <<>>, ret |-> [value |-> value, err |-> err]]

\* an operation that returned (value, err) after the makeRequest call r
Requested(r, value, err) ==
    [ok |-> TRUE, req |-> <<r.req>>, resp |-> <<r.resp>>,
     ret |-> [value |-> value, err |-> err]]

----------------------------------------------------------------------------
(* The tracking operations: what one call does, given the response the     *)
(* helper will produce if the call reaches it.                             *)

\* CreateTracking without its check of the tracking number
CreateTrackingCallUnchecked(params, resp) ==
    LET r == makeRequest(MethodPost, TrackingsPath, NilArg,
                         Arg(createTrackingRequest(params)),
                         trackingWrapper(ZeroTracking), resp)
    IN  Requested(r, r.result.Tracking, r.err)

\* func (client *Client) CreateTracking(ctx, params) (Tracking, error)
CreateTrackingCall(params, resp) ==
    IF params.TrackingNumber = EmptyString
    THEN Rejected(ZeroTracking, New(errMissingTrackingNumber))
    ELSE LET r == makeRequest(MethodPost, TrackingsPath, NilArg,
                              Arg(createTrackingRequest(params)),
                              trackingWrapper(ZeroTracking), resp)
         IN  Requested(r, r.result.Tracking, r.err)

\* DeleteTracking wrapping the helper's error as it wraps URIPath's
DeleteTrackingCallWrapped(identifier, resp) ==
    LET u == URIPath(identifier) IN
    IF u.err # Nil
    THEN Rejected(ZeroTracking, Wrap(u.err, "error deleting tracking"))
    ELSE LET uriPath == TrackingsPath \o u.path
             r == makeRequest(MethodDelete, uriPath, NilArg, NilArg,
                              trackingWrapper(ZeroTracking), resp)
         IN  Requested(r, r.result.Tracking, Wrap(r.err, "error deleting tracking"))

\* func (client *Client) DeleteTracking(ctx, identifier) (Tracking, error)
DeleteTrackingCall(identifier, resp) ==
    LET u == URIPath(identifier) IN
    IF u.err # Nil
    THEN Rejected(ZeroTracking, Wrap(u.err, "error deleting tracking"))
    ELSE LET uriPath == TrackingsPath \o u.path
             r == makeRequest(MethodDelete, uriPath, NilArg, NilArg,
                              trackingWrapper(ZeroTracking), resp)
         IN  Requested(r, r.result.Tracking, r.err)

\* GetTrackings passing its params as the body
GetTrackingsCallParamsInBody(params, resp) ==
    LET r == makeRequest(MethodGet, TrackingsPath, NilArg, Arg(params),
                         ZeroPagedTrackings, resp)
    IN  Requested(r, r.result, r.err)

\* func (client *Client) GetTrackings(ctx, params) (PagedTrackings, error)
GetTrackingsCall(params, resp) ==
    LET r == makeRequest(MethodGet, TrackingsPath, Arg(params), NilArg,
                         ZeroPagedTrackings, resp)
    IN  Requested(r, r.result, r.err)

\* GetTracking without the return that follows a failed URIPath
GetTrackingCallNoReturn(identifier, params, resp) ==
    LET u == URIPath(identifier)
        uriPath == TrackingsPath \o u.path
        r == makeRequest(MethodGet, uriPath, Arg(params), NilArg,
                         trackingWrapper(ZeroTracking), resp)
    IN  Requested(r, r.result.Tracking, r.err)

\* func (client *Client) GetTracking(ctx, identifier, params) (Tracking, error)
GetTrackingCall(identifier, params, resp) ==
    LET u == URIPath(identifier) IN
    IF u.err # Nil
    THEN Rejected(ZeroTracking, Wrap(u.err, "error getting tracking"))
    ELSE LET uriPath == TrackingsPath \o u.path
             r == makeRequest(MethodGet, uriPath, Arg(params), NilArg,
                              trackingWrapper(ZeroTracking), resp)
         IN  Requested(r, r.result.Tracking, r.err)

\* UpdateTracking sending POST
UpdateTrackingCallPost(identifier, params, resp) ==
    LET u == URIPath(identifier) IN
    IF u.err # Nil
    THEN Rejected(ZeroTracking, Wrap(u.err, "error updating tracking"))
    ELSE LET uriPath == TrackingsPath \o u.path
             r == makeRequest(MethodPost, uriPath, NilArg,
                              Arg(updateTrackingRequest(params)),
                              trackingWrapper(ZeroTracking), resp)
         IN  Requested(r, r.result.Tracking, r.err)

\* func (client *Client) UpdateTracking(ctx, identifier, params) (Tracking, error)
UpdateTrackingCall(identifier, params, resp) ==
    LET u == URIPath(identifier) IN
    IF u.err # Nil
    THEN Rejected(ZeroTracking, Wrap(u.err, "error updating tracking"))
    ELSE LET uriPath == TrackingsPath \o u.path
             r == makeRequest(MethodPut, uriPath, NilArg,
                              Arg(updateTrackingRequest(params)),
                              trackingWrapper(ZeroTracking), resp)
         IN  Requested(r, r.result.Tracking, r.err)

\* RetrackTracking requesting the tracking's own path
RetrackTrackingCallNoSuffix(identifier, resp) ==
    LET u == URIPath(identifier) IN
    IF u.err # Nil
    THEN Rejected(ZeroTracking, Wrap(u.err, "error retracking"))
    ELSE LET uriPath == TrackingsPath \o u.path
             r == makeRequest(MethodPost, uriPath, NilArg, NilArg,
                              trackingWrapper(ZeroTracking), resp)
         IN  Requested(r, r.result.Tracking, r.err)

\* RetrackTracking refusing a tracking it has already retracked three times
RetrackTrackingCallLimited(identifier, resp) ==
    LET u == URIPath(identifier) IN
    IF u.err # Nil
    THEN Rejected(ZeroTracking, Wrap(u.err, "error retracking"))
    ELSE IF identifier \in DOMAIN retracked /\ retracked[identifier] >= 3
    THEN Rejected(ZeroTracking, New("error retracking"))
    ELSE LET uriPath == TrackingsPath \o u.path \o RetrackSuffix
             r == makeRequest(MethodPost, uriPath, NilArg, NilArg,
                              trackingWrapper(ZeroTracking), resp)
         IN  Requested(r, r.result.Tracking, r.err)

\* func (client *Client) RetrackTracking(ctx, identifier) (Tracking, error)
RetrackTrackingCall(identifier, resp) ==
    LET u == URIPath(identifier) IN
    IF u.err # Nil
    THEN Rejected(ZeroTracking, Wrap(u.err, "error retracking"))
    ELSE LET uriPath == TrackingsPath \o u.path \o RetrackSuffix
             r == makeRequest(MethodPost, uriPath, NilArg, NilArg,
                              trackingWrapper(ZeroTracking), resp)
         IN  Requested(r, r.result.Tracking, r.err)

\* func (client *Client) MarkTrackingAsCompleted(ctx, identifier, status) (Tracking, error)
MarkTrackingAsCompletedCall(identifier, status, resp) ==
    LET u == URIPath(identifier) IN
    IF u.err # Nil
    THEN Rejected(ZeroTracking, Wrap(u.err, "error marking tracking as completed"))
    ELSE LET uriPath == TrackingsPath \o u.path \o MarkAsCompletedSuffix
             r == makeRequest(MethodPost, uriPath, NilArg,
                              Arg(markAsCompletedRequest(status)),
                              trackingWrapper(ZeroTracking), resp)
         IN  Requested(r, r.result.Tracking, r.err)

\* the part of a call the caller's arguments decide: whether they pass
\* validation, and the requests handed to the helper
Outcome(c) == [ok |-> c.ok, req |-> c.req]

\* every call of every operation as the current state of the client makes
\* it come out; Init evaluates it once, on the client no call has touched
FreshOutcomes ==
    LET w == CHOOSE r \in WrapperResponses : TRUE
        g == CHOOSE r \in PagedResponses : TRUE
    IN  [CreateTracking |->
             [p \in CreateTrackingParamsSet |-> Outcome(CreateTrackingCall(p, w))],
         DeleteTracking |->
             [i \in Identifiers |-> Outcome(DeleteTrackingCall(i, w))],
         GetTrackings |->
             [p \in GetTrackingsParamsSet |-> Outcome(GetTrackingsCall(p, g))],
         GetTracking |->
             [i \in Identifiers |->
                 [p \in GetTrackingParamsSet |-> Outcome(GetTrackingCall(i, p, w))]],
         UpdateTracking |->
             [i \in Identifiers |->
                 [p \in UpdateTrackingParamsSet |->
                     Outcome(UpdateTrackingCall(i, p, w))]],
         RetrackTracking |->
             [i \in Identifiers |-> Outcome(RetrackTrackingCall(i, w))],
         MarkTrackingAsCompleted |->
             [i \in Identifiers |->
                 [st \in TrackingCompletedStatuses |->
                     Outcome(MarkTrackingAsCompletedCall(i, st, w))]]]

----------------------------------------------------------------------------
(* State *)

NoIdentifier == [kind |-> "none"]
NoParams == [none |-> TRUE]
NoCall ==
    [op |-> "none", identifier |-> NoIdentifier, params |-> NoParams,
     ok |-> FALSE, req |-> <<>>, resp |-> <<>>,
     ret |-> [value |-> ZeroTracking, err |-> Nil]]

NoURI == [called |-> FALSE, path |-> EmptyString, err |-> Nil]
NotChecked == [called |-> FALSE, at |-> 0, result |-> FALSE]

\* type RateLimit struct { Reset int64; Limit int; Remaining int }
RateLimits == [Reset : 0..MaxTime + 1, Limit : {10}, Remaining : {0, 1, 2}]

\* the state of a client before any call
Idle ==
    /\ ident = NoIdentifier
    /\ uri = NoURI
    /\ rateLimit = [Reset |-> 0, Limit |-> 10, Remaining |-> 2]
    /\ now = 0
    /\ reached = NotChecked
    /\ call = NoCall
    /\ calls = 0
    /\ validated = 0
    /\ sent = 0
    /\ retracked = [i \in {} |-> 0]
    /\ fresh = FreshOutcomes

clientVars == <<call, calls, validated, sent, retracked>>
uriVars == <<ident, uri>>
rateVars == <<rateLimit, now, reached>>

\* the number of retrack requests handed over so far for an identifier
Retracked(identifier) ==
    IF identifier \in DOMAIN retracked THEN retracked[identifier] ELSE 0

\* one call of a tracking operation has returned: c is what it did
Returned(op, identifier, params, c) ==
    /\ call' = [op |-> op, identifier |-> identifier, params |-> params,
                ok |-> c.ok, req |-> c.req, resp |-> c.resp, ret |-> c.ret]
    /\ calls' = calls + 1
    /\ validated' = validated + (IF c.ok THEN 1 ELSE 0)
    /\ sent' = sent + Len(c.req)
    /\ retracked' =
           IF op = "RetrackTracking" /\ c.req # <<>>
           THEN [i \in DOMAIN retracked \cup {identifier} |->
                    IF i = identifier THEN Retracked(i) + Len(c.req)
                    ELSE retracked[i]]
           ELSE retracked
    /\ UNCHANGED <<uriVars, rateVars, fresh>>

CreateTracking ==
    /\ calls < MaxCalls
    /\ \E params \in CreateTrackingParamsSet, resp \in WrapperResponses :
           Returned("CreateTracking", NoIdentifier, params,
                    CreateTrackingCall(params, resp))

DeleteTracking ==
    /\ calls < MaxCalls
    /\ \E identifier \in Identifiers, resp \in WrapperResponses :
           Returned("DeleteTracking", identifier, NoParams,
                    DeleteTrackingCall(identifier, resp))

GetTrackings ==
    /\ calls < MaxCalls
    /\ \E params \in GetTrackingsParamsSet, resp \in PagedResponses :
           Returned("GetTrackings", NoIdentifier, params,
                    GetTrackingsCall(params, resp))

GetTracking ==
    /\ calls < MaxCalls
    /\ \E identifier \in Identifiers, params \in GetTrackingParamsSet,
          resp \in WrapperResponses :
           Returned("GetTracking", identifier, params,
                    GetTrackingCall(identifier, params, resp))

UpdateTracking ==
    /\ calls < MaxCalls
    /\ \E identifier \in Identifiers, params \in UpdateTrackingParamsSet,
          resp \in WrapperResponses :
           Returned("UpdateTracking", identifier, params,
                    UpdateTrackingCall(identifier, params, resp))

RetrackTracking ==
    /\ calls < MaxCalls
    /\ \E identifier \in Identifiers, resp \in WrapperResponses :
           Returned("RetrackTracking", identifier, NoParams,
                    RetrackTrackingCall(identifier, resp))

MarkTrackingAsCompleted ==
    /\ calls < MaxCalls
    /\ \E identifier \in Identifiers, status \in TrackingCompletedStatuses,
          resp \in WrapperResponses :
           Returned("MarkTrackingAsCompleted", identifier, [status |-> status],
                    MarkTrackingAsCompletedCall(identifier, status, resp))

Init == Idle

Next ==
    \/ CreateTracking
    \/ DeleteTracking
    \/ GetTrackings
    \/ GetTracking
    \/ UpdateTracking
    \/ RetrackTracking
    \/ MarkTrackingAsCompleted

Spec == Init /\ [][Next]_vars

----------------------------------------------------------------------------
(* URIPath on its own, over every identifier of the bounded strings *)

InitURI ==
    /\ ident \in IdentifiersOver(Strings)
    /\ uri = NoURI
    /\ rateLimit = [Reset |-> 0, Limit |-> 10, Remaining |-> 2]
    /\ now = 0
    /\ reached = NotChecked
    /\ call = NoCall
    /\ calls = 0
    /\ validated = 0
    /\ sent = 0
    /\ retracked = [i \in {} |-> 0]
    /\ fresh = FreshOutcomes

CallTrackingIDURIPath ==
    /\ ident.kind = "TrackingID"
    /\ ~uri.called
    /\ LET u == TrackingIDURIPath(ident.id)
       IN  uri' = [called |-> TRUE, path |-> u.path, err |-> u.err]
    /\ UNCHANGED <<ident, rateVars, clientVars, fresh>>

CallSlugTrackingNumberURIPath ==
    /\ ident.kind = "SlugTrackingNumber"
    /\ ~uri.called
    /\ LET u == SlugTrackingNumberURIPath(ident)
       IN  uri' = [called |-> TRUE, path |-> u.path, err |-> u.err]
    /\ UNCHANGED <<ident, rateVars, clientVars, fresh>>

NextURI == CallTrackingIDURIPath \/ CallSlugTrackingNumberURIPath

SpecURI == InitURI /\ [][NextURI]_vars

----------------------------------------------------------------------------
(* The rate limit against the clock *)

InitRate ==
    /\ ident = NoIdentifier
    /\ uri = NoURI
    /\ rateLimit \in RateLimits
    /\ now = 0
    /\ reached = NotChecked
    /\ call = NoCall
    /\ calls = 0
    /\ validated = 0
    /\ sent = 0
    /\ retracked = [i \in {} |-> 0]
    /\ fresh = FreshOutcomes

\* a second passes
Tick ==
    /\ now < MaxTime
    /\ now' = now + 1
    /\ UNCHANGED <<rateLimit, reached, uriVars, clientVars, fresh>>

\* rateLimit.isReached() is called
IsReached ==
    /\ reached' = [called |-> TRUE, at |-> now, result |-> isReached(rateLimit, now)]
    /\ UNCHANGED <<rateLimit, now, uriVars, clientVars, fresh>>

NextRate == Tick \/ IsReached

SpecRate == InitRate /\ [][NextRate]_vars

\* the rate limits whose Reset the bounded clock gets past
InitRateFair == InitRate /\ rateLimit.Reset < MaxTime

\* the rate limit is never replaced and the clock keeps advancing: no
\* second lasts forever
SpecRateFair == InitRateFair /\ [][NextRate]_vars /\ WF_vars(Tick)

----------------------------------------------------------------------------
(* Properties *)

\* C1: isReached returns true exactly when Remaining = 0 and Reset is not
\* before the current Unix time; Remaining > 0 gives false even with Reset
\* in the future, Remaining = 0 with Reset < now gives false, and the
\* boundary Reset = now with Remaining = 0 gives true.
C1_IsReachedExactly ==
    reached.called =>
        /\ reached.result = TRUE
               <=> (rateLimit.Remaining = 0 /\ ~(rateLimit.Reset < reached.at))
        /\ rateLimit.Remaining > 0 => reached.result = FALSE
        /\ rateLimit.Remaining = 0 /\ rateLimit.Reset < reached.at
               => reached.result = FALSE
        /\ rateLimit.Remaining = 0 /\ rateLimit.Reset = reached.at
               => reached.result = TRUE

\* the boundary: a check made at the very second of the reset, none remaining
C1_Witness ==
    /\ reached.called
    /\ reached.at > 0
    /\ rateLimit.Remaining = 0
    /\ rateLimit.Reset = reached.at
    /\ reached.result = TRUE

IdentifierOps ==
    {"GetTracking", "UpdateTracking", "DeleteTracking", "RetrackTracking",
     "MarkTrackingAsCompleted"}

\* the suffix each identifier-based operation appends to the path
SuffixOf(op) ==
    CASE op = "RetrackTracking" -> RetrackSuffix
      [] op = "MarkTrackingAsCompleted" -> MarkAsCompletedSuffix
      [] OTHER -> <<>>

\* C2: with a valid identifier, every identifier-based operation requests
\* "/trackings" + the identifier's URIPath, plus "/retrack" for
\* RetrackTracking and "/mark-as-completed" for MarkTrackingAsCompleted and
\* nothing for the others; CreateTracking and GetTrackings request exactly
\* "/trackings".
C2_RequestPath ==
    /\ call.op \in IdentifierOps /\ URIPath(call.identifier).err = Nil
           => /\ Len(call.req) = 1
              /\ call.req[1].path =
                     TrackingsPath \o URIPath(call.identifier).path
                         \o SuffixOf(call.op)
    /\ call.op \in {"CreateTracking", "GetTrackings"}
           => \A i \in 1..Len(call.req) : call.req[i].path = TrackingsPath

\* a retrack request for an identifier whose id needs escaping
C2_Witness ==
    /\ call.op = "RetrackTracking"
    /\ call.identifier = SlugTrackingNumber(<<"a", "/">>, <<"a", "/">>)
    /\ Len(call.req) = 1
    /\ Len(call.req[1].path) = Len(TrackingsPath) + 10 + Len(RetrackSuffix)

\* the HTTP method of each operation
MethodOf(op) ==
    CASE op = "CreateTracking" -> "POST"
      [] op = "GetTracking" -> "GET"
      [] op = "GetTrackings" -> "GET"
      [] op = "UpdateTracking" -> "PUT"
      [] op = "DeleteTracking" -> "DELETE"
      [] op = "RetrackTracking" -> "POST"
      [] op = "MarkTrackingAsCompleted" -> "POST"

\* C3: every request of an operation carries that operation's one HTTP
\* method, whatever the identifier kind and the parameters.
C3_FixedMethod ==
    \A i \in 1..Len(call.req) : call.req[i].method = MethodOf(call.op)

\* an update of a tracking named by slug and tracking number went out as PUT
C3_Witness ==
    /\ call.op = "UpdateTracking"
    /\ call.identifier.kind = "SlugTrackingNumber"
    /\ call.params.Title # EmptyString
    /\ Len(call.req) = 1
    /\ call.req[1].method = "PUT"

\* C4: TrackingID.URIPath returns the missing-tracking-id error and an empty
\* path for the empty id, and for every other id a nil error and "/"
\* followed by the path-escaped id, which is a single path segment.
C4_TrackingIDURIPath ==
    uri.called /\ ident.kind = "TrackingID" =>
        IF ident.id = <<>>
        THEN uri.path = <<>> /\ uri.err = <<errMissingTrackingID>>
        ELSE /\ uri.err = <<>>
             /\ Head(uri.path) = "/"
             /\ Tail(uri.path) = PathEscape(ident.id)
             /\ Count(uri.path, "/") = 1

\* the path of an id that holds a path separator
C4_Witness ==
    /\ uri.called
    /\ ident.kind = "TrackingID"
    /\ Count(ident.id, "/") > 0
    /\ uri.err = <<>>
    /\ Len(uri.path) > 1 + Len(ident.id)

\* C5: SlugTrackingNumber.URIPath returns an error and an empty path when
\* the slug or the tracking number is empty, and otherwise a nil error and
\* "/<escaped slug>/<escaped tracking number>": the slug first, two segments.
C5_SlugTrackingNumberURIPath ==
    uri.called /\ ident.kind = "SlugTrackingNumber" =>
        IF ident.Slug = <<>> \/ ident.TrackingNumber = <<>>
        THEN uri.path = <<>> /\ uri.err # <<>>
        ELSE /\ uri.err = <<>>
             /\ uri.path = <<"/">> \o PathEscape(ident.Slug)
                               \o <<"/">> \o PathEscape(ident.TrackingNumber)
             /\ Count(uri.path, "/") = 2

\* an empty slug alone is refused
C5_Witness ==
    /\ uri.called
    /\ ident.kind = "SlugTrackingNumber"
    /\ ident.Slug = <<>>
    /\ ident.TrackingNumber # <<>>
    /\ uri.path = <<>>
    /\ uri.err # <<>>

\* C6: CreateTracking with an empty TrackingNumber returns the zero-value
\* Tracking and the missing-tracking-number error and sends nothing; with a
\* non-empty TrackingNumber it sends the request whatever the other fields.
C6_CreateTrackingValidation ==
    call.op = "CreateTracking" =>
        IF call.params.TrackingNumber = <<>>
        THEN /\ call.ret.value = ZeroTracking
             /\ call.ret.err = <<errMissingTrackingNumber>>
             /\ call.req = <<>>
        ELSE Len(call.req) = 1

\* a create without a tracking number, refused although it names a slug
C6_Witness ==
    /\ call.op = "CreateTracking"
    /\ call.params.TrackingNumber = <<>>
    /\ call.params.Slug # <<>>
    /\ call.req = <<>>
    /\ call.ret.err # <<>>

\* C7: the reason in the body MarkTrackingAsCompleted sends is always one of
\* "DELIVERED", "LOST" and "RETURNED_TO_SENDER".
C7_ReasonIsOneOfThree ==
    call.op = "MarkTrackingAsCompleted" =>
        \A i \in 1..Len(call.req) :
            call.req[i].body[1].reason
                \in {"DELIVERED", "LOST", "RETURNED_TO_SENDER"}

\* C8: no identifier ever has more than three retrack requests sent for it.
C8_AtMostThreeRetracks ==
    \A i \in DOMAIN retracked : retracked[i] <= 3

\* whether the arguments of a call pass the validation of its operation
ValidArguments(c) ==
    CASE c.op = "CreateTracking" -> c.params.TrackingNumber # <<>>
      [] c.op = "GetTrackings" -> TRUE
      [] c.op \in IdentifierOps ->
            IF c.identifier.kind = "TrackingID"
            THEN c.identifier.id # <<>>
            ELSE c.identifier.Slug # <<>> /\ c.identifier.TrackingNumber # <<>>

\* C9: a call whose arguments pass validation hands exactly one request to
\* the helper and a call whose arguments fail hands none, so the requests
\* issued always number the validated calls.
C9_OneRequestPerValidatedCall ==
    /\ sent = validated
    /\ call.op # "none" =>
           /\ call.ok = ValidArguments(call)
           /\ Len(call.req) = (IF ValidArguments(call) THEN 1 ELSE 0)

\* a refused call after two that went out
C9_Witness ==
    /\ calls = 3
    /\ sent = 2
    /\ validated = 2
    /\ call.op = "GetTracking"
    /\ ~ValidArguments(call)
    /\ call.req = <<>>

\* C10 as stated: once a request is sent, every operation returns the
\* helper's error unchanged and the Tracking unwrapped from the decoded
\* trackingWrapper, the zero-value Tracking when nothing was decoded.
C10_ReturnsHelperErrorAndTracking ==
    call.req # <<>> =>
        /\ call.ret.err = call.resp[1].err
        /\ call.resp[1].decoded = <<>> => call.ret.value = ZeroTracking
        /\ call.resp[1].decoded # <<>> =>
               /\ DOMAIN call.resp[1].decoded[1] = {"Tracking"}
               /\ call.ret.value = call.resp[1].decoded[1].Tracking

\* C10 amended: the same for the six operations on a single tracking, while
\* GetTrackings returns the helper's error unchanged and the PagedTrackings
\* the helper decoded, the zero-value PagedTrackings when it decoded nothing.
C10_ReturnsHelperErrorAndResult ==
    call.req # <<>> =>
        /\ call.ret.err = call.resp[1].err
        /\ call.op # "GetTrackings" =>
               /\ call.resp[1].decoded = <<>> => call.ret.value = ZeroTracking
               /\ call.resp[1].decoded # <<>> =>
                      /\ DOMAIN call.resp[1].decoded[1] = {"Tracking"}
                      /\ call.ret.value = call.resp[1].decoded[1].Tracking
        /\ call.op = "GetTrackings" =>
               /\ call.resp[1].decoded = <<>>
                      => call.ret.value = ZeroPagedTrackings
               /\ call.resp[1].decoded # <<>>
                      => call.ret.value = call.resp[1].decoded[1]

\* a delete whose helper failed after decoding a tracking
C10_Witness ==
    /\ call.op = "DeleteTracking"
    /\ call.req # <<>>
    /\ call.resp[1].err # <<>>
    /\ call.resp[1].decoded # <<>>
    /\ call.ret.err = call.resp[1].err
    /\ call.ret.value = Tracking(<<"a">>)

\* C11: the caller's parameters travel in exactly one part of the request.
\* GetTracking and GetTrackings pass params as the query and no body;
\* CreateTracking and UpdateTracking pass no query and params under the key
\* "tracking" as the body; MarkTrackingAsCompleted passes no query and the
\* reason as the body; DeleteTracking and RetrackTracking pass neither.
C11_ParamsInOnePart ==
    \A i \in 1..Len(call.req) :
        LET r == call.req[i] IN
        /\ call.op \in {"GetTracking", "GetTrackings"}
               => r.query = <<call.params>> /\ r.body = <<>>
        /\ call.op \in {"CreateTracking", "UpdateTracking"}
               => /\ r.query = <<>>
                  /\ Len(r.body) = 1
                  /\ DOMAIN r.body[1] = {"tracking"}
                  /\ r.body[1].tracking = call.params
        /\ call.op = "MarkTrackingAsCompleted"
               => /\ r.query = <<>>
                  /\ Len(r.body) = 1
                  /\ DOMAIN r.body[1] = {"reason"}
                  /\ r.body[1].reason = call.params.status
        /\ call.op \in {"DeleteTracking", "RetrackTracking"}
               => r.query = <<>> /\ r.body = <<>>

\* a listing whose non-empty params went out as the query, with no body
C11_Witness ==
    /\ call.op = "GetTrackings"
    /\ call.params.CreatedAtMax # <<>>
    /\ Len(call.req) = 1
    /\ call.req[1].query = <<call.params>>
    /\ call.req[1].body = <<>>

\* what the last call's operation, identifier and params come out as on a
\* client with no earlier call
FreshOutcomeOf(c) ==
    CASE c.op = "CreateTracking" -> fresh.CreateTracking[c.params]
      [] c.op = "DeleteTracking" -> fresh.DeleteTracking[c.identifier]
      [] c.op = "GetTrackings" -> fresh.GetTrackings[c.params]
      [] c.op = "GetTracking" -> fresh.GetTracking[c.identifier][c.params]
      [] c.op = "UpdateTracking" -> fresh.UpdateTracking[c.identifier][c.params]
      [] c.op = "RetrackTracking" -> fresh.RetrackTracking[c.identifier]
      [] c.op = "MarkTrackingAsCompleted" ->
            fresh.MarkTrackingAsCompleted[c.identifier][c.params.status]

C13_EventuallyNeverReached ==
    /\ <>[](~isReached(rateLimit, now))
    /\ [](now > rateLimit.Reset => ~isReached(rateLimit, now))
    /\ [](reached.called /\ reached.at > rateLimit.Reset
              => reached.result = FALSE)

\* an exhausted limit checked in the first second after its Reset: not
\* reached any more, and the clock has moved on since
C13_Witness ==
    /\ rateLimit.Remaining = 0
    /\ rateLimit.Reset > 0
    /\ reached.called
    /\ reached.at = rateLimit.Reset + 1
    /\ reached.result = FALSE
    /\ now > reached.at

====
